---- MODULE Spec2Model ----
(***************************************************************************)
(* State-machine model of the deep-agent workflow (src/deep-agent):        *)
(* the LangGraph state graph of graph.py, its six nodes and the           *)
(* conditional edge should_continue.                                       *)
(*                                                                         *)
(* Representation of Python values:                                        *)
(*   str            a sequence of characters (one-character strings) for   *)
(*                  the Reviewer feedback, a sequence of text atoms for    *)
(*                  every other string (a substring is a contiguous        *)
(*                  sub-sequence);                                         *)
(*   None (str)     NoneStr;     None (dict)    None;                      *)
(*   dict           a function from the keys present to their values;      *)
(*   list           a sequence.                                            *)
(***************************************************************************)
EXTENDS Integers, Sequences, FiniteSets

VARIABLES
    state,      \* the AgentState record threaded through the nodes
    pc,         \* node to run next, "should_continue", "END" or "aborted"
    trace,      \* names of the nodes invoked so far, in order
    route,      \* last value returned by should_continue ("" before any)
    failure,    \* exception that escaped a node and aborted the run ("" if none)
    reply,      \* last reasoning-service reply a node received (history)
    judgments,  \* number of Reviewer executions that obtained a judgment
    config,     \* the config the entrypoint hands to invoke
    llm_calls,  \* number of calls of the reasoning service made so far
    written,    \* keys of the patch the last step merged (history)
    runs,       \* the runs of the concurrent-runs and entrypoint specifications
    entry       \* the entrypoint program around the runs: where it is, what it
                \* has collected and what it has answered

vars == <<state, pc, trace, route, failure, reply, judgments, config,
          llm_calls, written, runs, entry>>

---------------------------------------------------------------------------
(* Python values *)

None == [None |-> TRUE]
NoneStr == <<"<None>">>

\* bool(x) for an Optional[str]
TruthyStr(s) == s # NoneStr /\ s # << >>

\* bool(x) for an Optional[dict]
TruthyDict(d) == d # None /\ DOMAIN d # {}

\* d.get(k, default)
Get(d, k, default) == IF k \in DOMAIN d THEN d[k] ELSE default

\* str(x) inside an f-string: None renders as the text None
Format(v) == IF v = NoneStr THEN <<"None">> ELSE v

\* (needle in haystack) for two strings
Contains(needle, haystack) ==
    \E i \in 1..(Len(haystack) + 1) :
        /\ i + Len(needle) - 1 <= Len(haystack)
        /\ \A j \in 1..Len(needle) : haystack[i + j - 1] = needle[j]

\* s.startswith(prefix)
StartsWith(s, prefix) ==
    /\ Len(prefix) <= Len(s)
    /\ \A j \in 1..Len(prefix) : s[j] = prefix[j]

LowerCase == <<"a", "b", "c", "d", "e", "f", "g", "h", "i", "j", "k", "l", "m",
               "n", "o", "p", "q", "r", "s", "t", "u", "v", "w", "x", "y", "z">>
UpperCase == <<"A", "B", "C", "D", "E", "F", "G", "H", "I", "J", "K", "L", "M",
               "N", "O", "P", "Q", "R", "S", "T", "U", "V", "W", "X", "Y", "Z">>

UpperChar(c) ==
    IF \E i \in 1..Len(LowerCase) : LowerCase[i] = c
    THEN UpperCase[CHOOSE i \in 1..Len(LowerCase) : LowerCase[i] = c]
    ELSE c

\* s.upper()
Upper(s) == [i \in 1..Len(s) |-> UpperChar(s[i])]

Whitespace == {" ", "\n", "\t"}

RECURSIVE LStrip(_)
LStrip(s) ==
    IF s # << >> /\ Head(s) \in Whitespace THEN LStrip(Tail(s)) ELSE s

RECURSIVE RStrip(_)
RStrip(s) ==
    IF s # << >> /\ s[Len(s)] \in Whitespace
    THEN RStrip(SubSeq(s, 1, Len(s) - 1))
    ELSE s

\* s.strip()
Strip(s) == RStrip(LStrip(s))

\* s.split(): the maximal runs of non-whitespace characters, in order
RECURSIVE SplitFrom(_, _, _)
SplitFrom(s, word, acc) ==
    IF s = << >>
    THEN IF word = << >> THEN acc ELSE Append(acc, word)
    ELSE IF Head(s) \in Whitespace
         THEN SplitFrom(Tail(s), << >>,
                        IF word = << >> THEN acc ELSE Append(acc, word))
         ELSE SplitFrom(Tail(s), Append(word, Head(s)), acc)

Split(s) == SplitFrom(s, << >>, << >>)

\* xs[:n]
Take(xs, n) == SubSeq(xs, 1, IF Len(xs) < n THEN Len(xs) ELSE n)

\* x in xs, for a list xs
InList(x, xs) == \E i \in 1..Len(xs) : xs[i] = x

---------------------------------------------------------------------------
(* graph.py: the Continuation Policy *)

APPROVE == <<"A", "P", "P", "R", "O", "V", "E">>
MAX_ITERATIONS == 3

\* variant: only the first word is looked at
is_approved_first_word(feedback) ==
    LET feedback_str == Strip(Upper(feedback))
    IN  \/ feedback_str = APPROVE
        \/ StartsWith(feedback_str, APPROVE)
        \/ InList(APPROVE, Take(Split(feedback_str), 1))

is_approved(feedback) ==
    LET feedback_str == Strip(Upper(feedback))
    IN  \/ feedback_str = APPROVE
        \/ StartsWith(feedback_str, APPROVE)
        \/ InList(APPROVE, Take(Split(feedback_str), 2))

\* variant: the cap test is iteration > 3
should_continue_late_cap(s) ==
    LET fb == Get(s, "feedback", << >>)
        iteration == Get(s, "iteration", 0)
    IN  IF iteration > MAX_ITERATIONS THEN "linkedin"
        ELSE IF TruthyStr(fb) /\ is_approved(fb) THEN "linkedin"
        ELSE IF ~TruthyDict(Get(s, "generated_question", None)) THEN "linkedin"
        ELSE "generator"

\* variant: the cap is consulted only when there is no feedback to act on
should_continue_cap_after_feedback(s) ==
    LET fb == Get(s, "feedback", << >>)
        iteration == Get(s, "iteration", 0)
    IN  IF TruthyStr(fb)
        THEN IF is_approved(fb) THEN "linkedin"
             ELSE IF ~TruthyDict(Get(s, "generated_question", None))
                  THEN "linkedin"
                  ELSE "generator"
        ELSE IF iteration >= MAX_ITERATIONS THEN "linkedin"
        ELSE IF ~TruthyDict(Get(s, "generated_question", None)) THEN "linkedin"
        ELSE "generator"

\* variant: no test for a missing question
should_continue_no_question_test(s) ==
    LET fb == Get(s, "feedback", << >>)
        iteration == Get(s, "iteration", 0)
    IN  IF iteration >= MAX_ITERATIONS THEN "linkedin"
        ELSE IF TruthyStr(fb) /\ is_approved(fb) THEN "linkedin"
        ELSE "generator"

should_continue(s) ==
    LET fb == Get(s, "feedback", << >>)
        iteration == Get(s, "iteration", 0)
    IN  IF iteration >= MAX_ITERATIONS THEN "linkedin"
        ELSE IF TruthyStr(fb) /\ is_approved(fb) THEN "linkedin"
        ELSE IF ~TruthyDict(Get(s, "generated_question", None)) THEN "linkedin"
        ELSE "generator"

---------------------------------------------------------------------------
(* The engine: node results, patches and their merge into the state *)

\* a node returned the partial update patch; called tells whether it got
\* there through a completed call of the reasoning service
Return(patch, called) == [raised |-> FALSE, patch |-> patch, called |-> called]

\* an exception escaped the node
Raise(exc, called) == [raised |-> TRUE, exc |-> exc, called |-> called]

\* shallow overwrite of the keys present in the patch
Merge(s, patch) ==
    [k \in DOMAIN s \cup DOMAIN patch |->
        IF k \in DOMAIN patch THEN patch[k] ELSE s[k]]

\* d[k] = v on a dict
SetItem(d, k, v) ==
    [x \in DOMAIN d \cup {k} |-> IF x = k THEN v ELSE d[x]]

\* outcome of one call of the reasoning service (chain.invoke)
LLMRaise == [raised |-> TRUE]
LLMReturn(content) == [raised |-> FALSE, content |-> content]

\* no call of the reasoning service was made
NoReply == [raised |-> FALSE, none |-> TRUE]

---------------------------------------------------------------------------
(* Replies that carry JSON: fenced text, fence removal and json.loads *)

\* A reply text is  open ++ body ++ close  where open is "", the fence with
\* the json tag (7 characters) or the bare fence (3 characters), close is ""
\* or the bare fence, and body is a JSON document or other text.
\* A body is described by what json.loads makes of it:
\*   [json |-> "invalid"]            text that is not JSON
\*   [json |-> "null" | "list" | "string"]
\*   [json |-> "number"]             the five-digit number 12345
\*   [json |-> "object", d |-> dict] a JSON object
FENCE_JSON == "<fence>json"
FENCE == "<fence>"

Content(open, body, close) == [open |-> open, body |-> body, close |-> close]

\* content[7:-3] / content[3:-3]: the opening fence is removed exactly; the
\* three characters cut at the end are the closing fence when there is one
\* and the last three characters of the body otherwise (cut = 3).
StripFence(content) ==
    IF content.open \in {FENCE_JSON, FENCE}
    THEN [body |-> content.body,
          cut |-> IF content.close = FENCE THEN 0 ELSE 3,
          trailing |-> ""]
    ELSE [body |-> content.body, cut |-> 0, trailing |-> content.close]

JSONDecodeError == [ok |-> FALSE]
Loaded(type, value) == [ok |-> TRUE, type |-> type, value |-> value]

\* json.loads(text).  Text followed by a stray fence is not JSON.  With its
\* last three characters cut, an object, a list, a string or null is no
\* longer a JSON document, while the number 12345 becomes the number 12.
json_loads(text) ==
    IF text.trailing # "" THEN JSONDecodeError
    ELSE IF text.body.json = "invalid" THEN JSONDecodeError
    ELSE IF text.cut > 0 /\ text.body.json # "number" THEN JSONDecodeError
    ELSE IF text.body.json = "object" THEN Loaded("dict", text.body.d)
    ELSE IF text.body.json = "null" THEN Loaded("NoneType", None)
    ELSE Loaded(text.body.json, None)

---------------------------------------------------------------------------
(* nodes/planner.py *)

\* chain.invoke returns the parsed list of queries, or the call raises
planner_node(s, llm) ==
    IF llm.raised THEN Raise("ProviderError", TRUE)
    ELSE Return([research_queries |-> llm.content], TRUE)

---------------------------------------------------------------------------
(* nodes/researcher.py *)

SearchRaise == [raised |-> TRUE]
SearchReturn(organic) == [raised |-> FALSE, organic_results |-> organic]

\* what the Researcher heard from the search provider, query by query
SearchReplies(outcomes) == [raised |-> FALSE, searches |-> outcomes]

\* the inner loop over organic_results[:3]: acc = [papers, seen]
RECURSIVE AddResults(_, _)
AddResults(results, acc) ==
    IF results = << >> THEN acc
    ELSE LET result == Head(results)
             url == Get(result, "link", NoneStr)
         IN  IF TruthyStr(url) /\ url \notin acc.seen
             THEN AddResults(Tail(results),
                     [papers |-> Append(acc.papers,
                         [title |-> Get(result, "title", <<"No Title">>),
                          url |-> url,
                          summary |-> Get(result, "snippet",
                                          <<"No summary available.">>)]),
                      seen |-> acc.seen \cup {url}])
             ELSE AddResults(Tail(results), acc)

TOP_RESULTS == 3

\* SearchLoop reading one result more of each query
RECURSIVE SearchLoop_one_more_result(_, _, _)
SearchLoop_one_more_result(queries, outcomes, acc) ==
    IF queries = << >> THEN acc
    ELSE LET outcome == Head(outcomes)
         IN  SearchLoop_one_more_result(Tail(queries), Tail(outcomes),
                IF outcome.raised THEN acc
                ELSE AddResults(Take(outcome.organic_results, TOP_RESULTS + 1),
                                acc))

\* SearchLoop leaving the loop at the first query whose search raises
RECURSIVE SearchLoop_stops_on_error(_, _, _)
SearchLoop_stops_on_error(queries, outcomes, acc) ==
    IF queries = << >> THEN acc
    ELSE LET outcome == Head(outcomes)
         IN  IF outcome.raised THEN acc
             ELSE SearchLoop_stops_on_error(Tail(queries), Tail(outcomes),
                    AddResults(Take(outcome.organic_results, TOP_RESULTS), acc))

\* SearchLoop with a dedup set that is emptied for each query
RECURSIVE SearchLoop_seen_per_query(_, _, _)
SearchLoop_seen_per_query(queries, outcomes, acc) ==
    IF queries = << >> THEN acc
    ELSE LET outcome == Head(outcomes)
         IN  SearchLoop_seen_per_query(Tail(queries), Tail(outcomes),
                IF outcome.raised THEN acc
                ELSE AddResults(Take(outcome.organic_results, TOP_RESULTS),
                                [papers |-> acc.papers, seen |-> {}]))

\* the loop over the queries; an exception inside one pass is caught
RECURSIVE SearchLoop(_, _, _)
SearchLoop(queries, outcomes, acc) ==
    IF queries = << >> THEN acc
    ELSE LET outcome == Head(outcomes)
         IN  SearchLoop(Tail(queries), Tail(outcomes),
                IF outcome.raised THEN acc
                ELSE AddResults(Take(outcome.organic_results, TOP_RESULTS), acc))

\* researcher_node reading its first query before the loop
researcher_node_needs_query(s, key, wrapper, outcomes) ==
    IF s.research_queries = << >> THEN Raise("IndexError", FALSE)
    ELSE IF ~key \/ ~wrapper THEN Return([papers |-> << >>], FALSE)
    ELSE Return([papers |->
            SearchLoop(s.research_queries, outcomes,
                       [papers |-> << >>, seen |-> {}]).papers], FALSE)

\* researcher_node with a dedup set that lives in the module and so holds
\* the URLs every run has collected
researcher_node_shared_seen(s, key, wrapper, outcomes) ==
    LET shared == UNION {{runs[i].state.papers[k].url :
                            k \in 1..Len(runs[i].state.papers)} :
                         i \in DOMAIN runs}
    IN  IF ~key \/ ~wrapper THEN Return([papers |-> << >>], FALSE)
        ELSE Return([papers |->
                SearchLoop(s.research_queries, outcomes,
                           [papers |-> << >>, seen |-> shared]).papers], FALSE)

\* key: SERPAPI_API_KEY is set; wrapper: SerpAPIWrapper(...) did not raise;
\* outcomes[i]: what search.results gives for the i-th query
researcher_node(s, key, wrapper, outcomes) ==
    IF ~key \/ ~wrapper THEN Return([papers |-> << >>], FALSE)
    ELSE Return([papers |->
            SearchLoop(s.research_queries, outcomes,
                       [papers |-> << >>, seen |-> {}]).papers], FALSE)

---------------------------------------------------------------------------
(* nodes/selector.py *)

selector_node(s, llm) ==
    LET papers == s.papers
    IN  IF papers = << >> THEN Return([selected_paper |-> None], FALSE)
        ELSE IF llm.raised THEN Raise("ProviderError", TRUE)
        ELSE LET loaded == json_loads(StripFence(llm.content))
             IN  IF ~loaded.ok THEN Return([selected_paper |-> papers[1]], TRUE)
                 ELSE IF loaded.type # "dict" THEN Raise("AttributeError", TRUE)
                 ELSE Return([selected_paper |-> loaded.value], TRUE)

---------------------------------------------------------------------------
(* nodes/generator.py *)

QUESTION_TEXT_KEYS == {"question", "wrong_answer", "explanation"}

\* refinement mode is chosen when both feedback and a question are truthy
refinement_mode(s) ==
    /\ TruthyStr(Get(s, "feedback", NoneStr))
    /\ TruthyDict(Get(s, "generated_question", None))

\* what the chain is invoked with: the prior question's three texts and the
\* feedback in refinement mode, nothing in creation mode (the paper is in
\* the prompt itself)
input_vars(s) ==
    IF refinement_mode(s)
    THEN [question |-> s.generated_question.question,
          wrong_answer |-> s.generated_question.wrong_answer,
          explanation |-> s.generated_question.explanation,
          feedback |-> s.feedback]
    ELSE << >>

\* the try block after the call: parse, then make the citation carry the URL
parse_question(paper, content) ==
    LET loaded == json_loads(StripFence(content))
    IN  IF ~loaded.ok THEN None                          \* JSONDecodeError
        ELSE IF loaded.type # "dict" THEN None           \* no .get: caught
        ELSE LET generated_question == loaded.value
                 parsed == Get(generated_question, "citation", NoneStr)
                 citation == IF TruthyStr(parsed) THEN parsed ELSE << >>
             IN  IF "url" \notin DOMAIN paper THEN None  \* KeyError: caught
                 ELSE IF paper.url = NoneStr THEN None   \* TypeError: caught
                 ELSE IF Contains(paper.url, citation) THEN generated_question
                 ELSE IF "title" \notin DOMAIN paper THEN None
                 ELSE SetItem(generated_question, "citation",
                         Format(paper.title) \o <<" - ">>
                         \o Format(Get(paper, "authors", <<"Unknown">>))
                         \o <<" (">> \o Format(paper.url) \o <<")">>)

\* generator_node keeping the prior question when a refinement fails
generator_node_keeps_prior(s, llm) ==
    LET paper == s.selected_paper
    IN  IF ~TruthyDict(paper) THEN Return([generated_question |-> None], FALSE)
        ELSE IF refinement_mode(s)
                /\ ~(QUESTION_TEXT_KEYS \subseteq DOMAIN s.generated_question)
             THEN Raise("KeyError", FALSE)
        ELSE IF ~refinement_mode(s)
                /\ ~({"title", "summary", "url"} \subseteq DOMAIN paper)
             THEN Raise("KeyError", FALSE)
        ELSE IF llm.raised THEN Raise("ProviderError", TRUE)
        ELSE LET parsed == parse_question(paper, llm.content)
             IN  Return([generated_question |->
                           IF parsed = None /\ refinement_mode(s)
                           THEN s.generated_question ELSE parsed], TRUE)

generator_node(s, llm) ==
    LET paper == s.selected_paper
    IN  IF ~TruthyDict(paper) THEN Return([generated_question |-> None], FALSE)
        ELSE IF refinement_mode(s)
                /\ ~(QUESTION_TEXT_KEYS \subseteq DOMAIN s.generated_question)
             THEN Raise("KeyError", FALSE)
        ELSE IF ~refinement_mode(s)
                /\ ~({"title", "summary", "url"} \subseteq DOMAIN paper)
             THEN Raise("KeyError", FALSE)
        ELSE IF llm.raised THEN Raise("ProviderError", TRUE)
        ELSE Return([generated_question |-> parse_question(paper, llm.content)],
                    TRUE)

---------------------------------------------------------------------------
(* nodes/reviewer.py *)

FAILED_MESSAGE ==
    <<"F", "a", "i", "l", "e", "d", " ", "t", "o", " ", "g", "e", "n", "e",
      "r", "a", "t", "e", " ", "q", "u", "e", "s", "t", "i", "o", "n", ".">>

\* reviewer_node counting the execution that has no question to judge
reviewer_node_counts_failure(s, llm) ==
    LET question == s.generated_question
    IN  IF ~TruthyDict(question)
        THEN Return([feedback |-> FAILED_MESSAGE,
                     iteration |-> Get(s, "iteration", 0) + 1], FALSE)
        ELSE IF ~(QUESTION_TEXT_KEYS \subseteq DOMAIN question)
             THEN Raise("KeyError", FALSE)
        ELSE IF llm.raised THEN Raise("ProviderError", TRUE)
        ELSE Return([feedback |-> llm.content,
                     iteration |-> Get(s, "iteration", 0) + 1], TRUE)

\* reviewer_node with a patch that also resets the question
reviewer_node_clears_question(s, llm) ==
    LET question == s.generated_question
    IN  IF ~TruthyDict(question) THEN Return([feedback |-> FAILED_MESSAGE], FALSE)
        ELSE IF ~(QUESTION_TEXT_KEYS \subseteq DOMAIN question)
             THEN Raise("KeyError", FALSE)
        ELSE IF llm.raised THEN Raise("ProviderError", TRUE)
        ELSE Return([feedback |-> llm.content,
                     iteration |-> Get(s, "iteration", 0) + 1,
                     generated_question |-> None], TRUE)

reviewer_node(s, llm) ==
    LET question == s.generated_question
    IN  IF ~TruthyDict(question) THEN Return([feedback |-> FAILED_MESSAGE], FALSE)
        ELSE IF ~(QUESTION_TEXT_KEYS \subseteq DOMAIN question)
             THEN Raise("KeyError", FALSE)
        ELSE IF llm.raised THEN Raise("ProviderError", TRUE)
        ELSE Return([feedback |-> llm.content,
                     iteration |-> Get(s, "iteration", 0) + 1], TRUE)

---------------------------------------------------------------------------
(* nodes/linkedin.py *)

\* linkedin_node asking the service before it looks at the question
linkedin_node_always_calls(s, llm) ==
    LET question == Get(s, "generated_question", None)
    IN  IF llm.raised THEN Raise("ProviderError", TRUE)
        ELSE IF ~TruthyDict(question) THEN Return([linkedin_post |-> NoneStr], TRUE)
        ELSE IF ~(QUESTION_TEXT_KEYS \subseteq DOMAIN question)
             THEN Raise("KeyError", TRUE)
        ELSE Return([linkedin_post |-> llm.content], TRUE)

linkedin_node(s, llm) ==
    LET question == Get(s, "generated_question", None)
    IN  IF ~TruthyDict(question) THEN Return([linkedin_post |-> NoneStr], FALSE)
        ELSE IF ~(QUESTION_TEXT_KEYS \subseteq DOMAIN question)
             THEN Raise("KeyError", FALSE)
        ELSE IF llm.raised THEN Raise("ProviderError", TRUE)
        ELSE Return([linkedin_post |-> llm.content], TRUE)

---------------------------------------------------------------------------
(* What the collaborators can answer *)

MaxQueries == 2

\* all sequences over S of length at most n
SeqsUpTo(S, n) == UNION {[1..k -> S] : k \in 0..n}

Topics == {<<"KV Cache Optimization">>}

Queries == {<<"\"", "kv cache eviction policies", "\"">>,
            <<"paged attention failure modes">>}

PlannerOutcomes ==
    {LLMRaise} \cup {LLMReturn(qs) : qs \in SeqsUpTo(Queries, MaxQueries)}

U1 == <<"https://arxiv.org/abs/1">>
U2 == <<"https://arxiv.org/abs/2">>
U3 == <<"https://arxiv.org/abs/3">>
U4 == <<"https://arxiv.org/abs/4">>

\* an organic result with all its fields, and one with no link
Organic(url) ==
    [link |-> url, title |-> <<"Title of ">> \o url,
     snippet |-> <<"Snippet of ">> \o url]
NoLink == [title |-> <<"Untitled">>, snippet |-> <<"No link">>]

SearchOutcomes ==
    {SearchRaise,
     SearchReturn(<< >>),
     SearchReturn(<<Organic(U1), Organic(U2)>>),
     SearchReturn(<<Organic(U2), NoLink, Organic(U3), Organic(U4)>>),
     SearchReturn(<<[link |-> U1], Organic(U1)>>)}

EmptyDict == << >>

Invalid == [json |-> "invalid"]
JObject(d) == [json |-> "object", d |-> d]
NonObjects == {[json |-> "null"], [json |-> "list"], [json |-> "number"]}

Contents(bodies) ==
    {Content(open, body, close) :
        open \in {"", FENCE_JSON, FENCE}, body \in bodies, close \in {"", FENCE}}

\* the candidate with the authors and the reason the Selector asks for
Enriched(paper) ==
    [title |-> paper.title, authors |-> <<"A. Author">>,
     summary |-> paper.summary, url |-> paper.url,
     reason |-> <<"Most specific">>]

SelectorBodies(papers) ==
    {Invalid, JObject(EmptyDict)} \cup NonObjects
    \cup {JObject(Enriched(papers[i])) : i \in {1, Len(papers)}}
    \cup {JObject([Enriched(papers[1]) EXCEPT !.url = <<"https://example.org/other">>]),
          JObject([Enriched(papers[1]) EXCEPT !.url = << >>]),
          JObject([Enriched(papers[1]) EXCEPT !.authors = NoneStr]),
          JObject([summary |-> papers[1].summary, reason |-> <<"Only one">>])}

SelectorOutcomes(papers) ==
    {LLMRaise} \cup {LLMReturn(c) : c \in Contents(SelectorBodies(papers))}

Draft(citation) ==
    [question |-> <<"Q">>, wrong_answer |-> <<"W">>, explanation |-> <<"X">>,
     citation |-> citation]

GeneratorBodies(paper) ==
    {Invalid, JObject(EmptyDict)} \cup NonObjects
    \cup {JObject(Draft(c)) :
            c \in {NoneStr, <<"Some paper">>,
                   <<"Source: ">> \o Format(Get(paper, "url", << >>))}}
    \cup {JObject([question |-> <<"Q">>, wrong_answer |-> <<"W">>])}

GeneratorOutcomes(paper) ==
    {LLMRaise} \cup {LLMReturn(c) : c \in Contents(GeneratorBodies(paper))}

FbEmpty == << >>
FbApprove == <<"A", "P", "P", "R", "O", "V", "E">>
FbApproveNice ==
    <<"A", "p", "p", "r", "o", "v", "e", ",", " ", "n", "i", "c", "e", " ",
      "w", "o", "r", "k">>
FbOkApprove ==
    <<"o", "k", " ", "A", "P", "P", "R", "O", "V", "E", " ", "g", "r", "e",
      "a", "t">>
FbNeedsDepth ==
    <<"T", "h", "i", "s", " ", "n", "e", "e", "d", "s", " ", "m", "o", "r",
      "e", " ", "d", "e", "p", "t", "h">>
FbFifthToken ==
    <<"g", "r", "e", "a", "t", " ", "b", "u", "t", " ", "I", " ", "w", "o",
      "u", "l", "d", "n", "'", "t", " ", "A", "P", "P", "R", "O", "V", "E",
      " ", "t", "h", "i", "s">>
FbPadded == <<" ", "\n", " ", "a", "p", "p", "r", "o", "v", "e", "\t">>
FbBlank == <<" ", " ">>

ReviewerFeedbacks ==
    {FbEmpty, FbApprove, FbApproveNice, FbOkApprove, FbNeedsDepth,
     FbFifthToken, FbPadded, FbBlank}

ReviewerOutcomes == {LLMRaise} \cup {LLMReturn(f) : f \in ReviewerFeedbacks}

LinkedinOutcomes == {LLMRaise, LLMReturn(<<"You are in an interview ...">>)}

---------------------------------------------------------------------------
(* The run: graph.py create_graph and the engine's dispatch *)

\* api.py _create_initial_state
InitialState(topic) ==
    [topic |-> topic, iteration |-> 0, research_queries |-> << >>,
     papers |-> << >>, selected_paper |-> None, generated_question |-> None,
     linkedin_post |-> NoneStr, feedback |-> NoneStr]

\* The config of each entrypoint: api.py passes recursion_limit 100;
\* batch_runner.py and main.py call invoke with no config, and the engine
\* then applies its own default.
API_RECURSION_LIMIT == 100
DEFAULT_RECURSION_LIMIT == 25

EntryConfigs == {[recursion_limit |-> API_RECURSION_LIMIT], EmptyDict}

RecursionLimit(cfg) == Get(cfg, "recursion_limit", DEFAULT_RECURSION_LIMIT)

\* no entrypoint program is modelled around the run
NoEntry == [program |-> "none"]

Init ==
    /\ state \in {InitialState(t) : t \in Topics}
    /\ pc = "planner"
    /\ trace = << >>
    /\ route = ""
    /\ failure = ""
    /\ reply = NoReply
    /\ judgments = 0
    /\ config \in EntryConfigs
    /\ llm_calls = 0
    /\ written = {}
    /\ runs = << >>
    /\ entry = NoEntry

\* what a node heard from the reasoning service
Heard(r, llm) == IF r.called THEN llm ELSE NoReply

\* The engine runs node for the run `run`; r is the node's result, received
\* what it heard from its collaborator, next the node its edge leads to.
\* The step is refused once the step ceiling is reached.
After(run, node, r, received, next) ==
    IF Len(run.trace) >= RecursionLimit(run.config)
    THEN [run EXCEPT !.pc = "aborted", !.failure = "GraphRecursionError",
                     !.reply = NoReply, !.written = {}]
    ELSE [run EXCEPT
            !.trace = Append(@, node),
            !.reply = received,
            !.llm_calls = IF r.called THEN @ + 1 ELSE @,
            !.written = IF r.raised THEN {} ELSE DOMAIN r.patch,
            !.state = IF r.raised THEN @ ELSE Merge(@, r.patch),
            !.pc = IF r.raised THEN "aborted" ELSE next,
            !.failure = IF r.raised THEN r.exc ELSE @]

\* the single run of Spec, as a record
Self ==
    [state |-> state, pc |-> pc, trace |-> trace, failure |-> failure,
     reply |-> reply, config |-> config, llm_calls |-> llm_calls,
     written |-> written]

Become(run) ==
    /\ state' = run.state
    /\ pc' = run.pc
    /\ trace' = run.trace
    /\ failure' = run.failure
    /\ reply' = run.reply
    /\ config' = run.config
    /\ llm_calls' = run.llm_calls
    /\ written' = run.written

Dispatch(node, r, received, next) ==
    /\ Become(After(Self, node, r, received, next))
    /\ UNCHANGED <<route, runs, entry>>

Planner ==
    /\ pc = "planner"
    /\ \E llm \in PlannerOutcomes :
          LET r == planner_node(state, llm)
          IN  Dispatch("planner", r, Heard(r, llm), "researcher")
    /\ UNCHANGED judgments

Researcher ==
    /\ pc = "researcher"
    /\ \E key \in BOOLEAN, wrapper \in BOOLEAN,
          outcomes \in [1..Len(state.research_queries) -> SearchOutcomes] :
          Dispatch("researcher",
                   researcher_node(state, key, wrapper, outcomes),
                   IF key /\ wrapper THEN SearchReplies(outcomes) ELSE NoReply,
                   "selector")
    /\ UNCHANGED judgments

Selector ==
    /\ pc = "selector"
    /\ \E llm \in (IF state.papers = << >> THEN {NoReply}
                   ELSE SelectorOutcomes(state.papers)) :
          LET r == selector_node(state, llm)
          IN  Dispatch("selector", r, Heard(r, llm), "generator")
    /\ UNCHANGED judgments

Generator ==
    /\ pc = "generator"
    /\ \E llm \in GeneratorOutcomes(state.selected_paper) :
          LET r == generator_node(state, llm)
          IN  Dispatch("generator", r, Heard(r, llm), "reviewer")
    /\ UNCHANGED judgments

Reviewer ==
    /\ pc = "reviewer"
    /\ \E llm \in ReviewerOutcomes :
          LET r == reviewer_node(state, llm)
          IN  /\ Dispatch("reviewer", r, Heard(r, llm), "should_continue")
              /\ judgments' = IF r.called /\ ~r.raised THEN judgments + 1
                              ELSE judgments

\* the conditional edge out of the reviewer
ShouldContinue ==
    /\ pc = "should_continue"
    /\ route' = should_continue(state)
    /\ pc' = route'
    /\ reply' = NoReply
    /\ written' = {}
    /\ UNCHANGED <<state, trace, failure, judgments, config, llm_calls, runs,
                   entry>>

Linkedin ==
    /\ pc = "linkedin"
    /\ \E llm \in LinkedinOutcomes :
          LET r == linkedin_node(state, llm)
          IN  Dispatch("linkedin", r, Heard(r, llm), "END")
    /\ UNCHANGED judgments

Next ==
    \/ Planner
    \/ Researcher
    \/ Selector
    \/ Generator
    \/ Reviewer
    \/ ShouldContinue
    \/ Linkedin

Spec == Init /\ [][Next]_vars

TypeOK ==
    /\ pc \in {"planner", "researcher", "selector", "generator", "reviewer",
               "should_continue", "linkedin", "END", "aborted"}
    /\ state.iteration \in Nat

\* the run cannot be left hanging by the engine: an enabled node is run
FairSpec == Spec /\ WF_vars(Next)

---------------------------------------------------------------------------
(* The Continuation Policy on its own: every input, one application *)

MaxPieces == 3

RECURSIVE Flatten(_)
Flatten(ss) == IF ss = << >> THEN << >> ELSE Head(ss) \o Flatten(Tail(ss))

Pieces ==
    {APPROVE, <<"a", "p", "p", "r", "o", "v", "e">>, <<"o", "k">>, <<"D">>,
     <<" ">>, <<"\n">>}

PolicyFeedbacks ==
    {NoneStr, FAILED_MESSAGE,
     <<"A", "P", "P", "R", "O", "V", "E", "D", " ", "w", "i", "t", "h", " ",
       "e", "d", "i", "t", "s">>,
     <<"o", "k", ",", " ", "A", "P", "P", "R", "O", "V", "E", ".">>}
    \cup ReviewerFeedbacks
    \cup {Flatten(ps) : ps \in SeqsUpTo(Pieces, MaxPieces)}

PolicyArtifacts ==
    {None, EmptyDict, Draft(<<"Some paper">>),
     [question |-> <<"Q">>, citation |-> <<"Some paper">>]}

PolicyInit ==
    /\ state \in {[InitialState(t) EXCEPT !.feedback = f, !.iteration = i,
                                          !.generated_question = q] :
                    t \in Topics, f \in PolicyFeedbacks,
                    i \in 0..(MAX_ITERATIONS + 1), q \in PolicyArtifacts}
    /\ pc = "should_continue"
    /\ trace = << >>
    /\ route = ""
    /\ failure = ""
    /\ reply = NoReply
    /\ judgments = 0
    /\ config \in EntryConfigs
    /\ llm_calls = 0
    /\ written = {}
    /\ runs = << >>
    /\ entry = NoEntry

PolicyNext == ShouldContinue

PolicySpec == PolicyInit /\ [][PolicyNext]_vars

---------------------------------------------------------------------------
(* Concurrent runs: api.py hands each request's graph_app.invoke to a thread
   pool, so the node executions of several runs interleave *)

NumRuns == 2

\* one node execution (or one policy decision) of a run, given what the
\* collaborator of that node answers
Step(run, input) ==
    LET s == run.state
    IN  CASE run.pc = "planner" ->
               LET r == planner_node(s, input)
               IN  After(run, "planner", r, Heard(r, input), "researcher")
          [] run.pc = "researcher" ->
               After(run, "researcher",
                     researcher_node(s, input.key, input.wrapper, input.outcomes),
                     IF input.key /\ input.wrapper
                     THEN SearchReplies(input.outcomes) ELSE NoReply,
                     "selector")
          [] run.pc = "selector" ->
               LET r == selector_node(s, input)
               IN  After(run, "selector", r, Heard(r, input), "generator")
          [] run.pc = "generator" ->
               LET r == generator_node(s, input)
               IN  After(run, "generator", r, Heard(r, input), "reviewer")
          [] run.pc = "reviewer" ->
               LET r == reviewer_node(s, input)
               IN  After(run, "reviewer", r, Heard(r, input), "should_continue")
          [] run.pc = "should_continue" ->
               [run EXCEPT !.pc = should_continue(s), !.reply = NoReply,
                           !.written = {}]
          [] run.pc = "linkedin" ->
               LET r == linkedin_node(s, input)
               IN  After(run, "linkedin", r, Heard(r, input), "END")
          [] OTHER -> run

\* a run as api.py starts it; inputs records what its collaborators answered
NewRun(topic) ==
    [state |-> InitialState(topic), pc |-> "planner", trace |-> << >>,
     failure |-> "", reply |-> NoReply,
     config |-> [recursion_limit |-> API_RECURSION_LIMIT],
     llm_calls |-> 0, written |-> {}, inputs |-> << >>]

\* the run alone: the same answers, no other run
RECURSIVE Replay(_, _)
Replay(run, inputs) ==
    IF run.pc \in {"END", "aborted"} THEN run
    ELSE IF run.pc = "should_continue" THEN Replay(Step(run, NoReply), inputs)
    ELSE IF inputs = << >> THEN run
    ELSE Replay(Step(run, Head(inputs)), Tail(inputs))

\* the answers the collaborators give in the concurrent runs
ConcSearchOutcomes ==
    {SearchRaise,
     SearchReturn(<<Organic(U1), Organic(U2)>>),
     SearchReturn(<<Organic(U2), NoLink, Organic(U3), Organic(U4)>>)}

ConcInputs(run) ==
    CASE run.pc = "planner" ->
           {LLMReturn(qs) : qs \in {q \in [1..2 -> Queries] : q[1] # q[2]}}
      [] run.pc = "researcher" ->
           {[key |-> TRUE, wrapper |-> TRUE, outcomes |-> o] :
              o \in [1..Len(run.state.research_queries) -> ConcSearchOutcomes]}
      [] run.pc = "selector" ->
           IF run.state.papers = << >> THEN {NoReply}
           ELSE {LLMReturn(Content("", Invalid, ""))}
      [] run.pc = "generator" ->
           {LLMReturn(Content(FENCE_JSON, JObject(Draft(<<"Some paper">>)), FENCE))}
      [] run.pc = "reviewer" -> {LLMReturn(FbApprove), LLMReturn(FbNeedsDepth)}
      [] run.pc = "linkedin" -> LinkedinOutcomes
      [] OTHER -> {NoReply}

ConcInit ==
    /\ runs \in [1..NumRuns -> {NewRun(t) : t \in Topics}]
    /\ state = InitialState(CHOOSE t \in Topics : TRUE)
    /\ pc = "planner"
    /\ trace = << >>
    /\ route = ""
    /\ failure = ""
    /\ reply = NoReply
    /\ judgments = 0
    /\ config = [recursion_limit |-> API_RECURSION_LIMIT]
    /\ llm_calls = 0
    /\ written = {}
    /\ entry = NoEntry

\* run i takes its next step; the other runs stay as they are
ConcNode(i) ==
    /\ \E input \in ConcInputs(runs[i]) :
          runs' = [runs EXCEPT ![i] =
                     [Step(runs[i], input) EXCEPT
                        !.inputs = IF runs[i].pc = "should_continue" THEN @
                                   ELSE Append(@, input)]]
    /\ UNCHANGED <<state, pc, trace, route, failure, reply, judgments, config,
                   llm_calls, written, entry>>

ConcPlanner(i) ==
    /\ runs[i].pc = "planner"
    /\ ConcNode(i)

ConcResearcher(i) ==
    /\ runs[i].pc = "researcher"
    /\ ConcNode(i)

ConcSelector(i) ==
    /\ runs[i].pc = "selector"
    /\ ConcNode(i)

ConcGenerator(i) ==
    /\ runs[i].pc = "generator"
    /\ ConcNode(i)

ConcReviewer(i) ==
    /\ runs[i].pc = "reviewer"
    /\ ConcNode(i)

ConcShouldContinue(i) ==
    /\ runs[i].pc = "should_continue"
    /\ ConcNode(i)

ConcLinkedin(i) ==
    /\ runs[i].pc = "linkedin"
    /\ ConcNode(i)

ConcNext ==
    \/ \E i \in 1..NumRuns : ConcPlanner(i)
    \/ \E i \in 1..NumRuns : ConcResearcher(i)
    \/ \E i \in 1..NumRuns : ConcSelector(i)
    \/ \E i \in 1..NumRuns : ConcGenerator(i)
    \/ \E i \in 1..NumRuns : ConcReviewer(i)
    \/ \E i \in 1..NumRuns : ConcShouldContinue(i)
    \/ \E i \in 1..NumRuns : ConcLinkedin(i)

ConcSpec == ConcInit /\ [][ConcNext]_vars

\* the keys of a complete Artifact
ARTIFACT_KEYS == {"question", "wrong_answer", "explanation", "citation"}

---------------------------------------------------------------------------
(* The entrypoint programs: main.py, api.py and batch_runner.py build an
   initial state, call the compiled graph and act on the final state *)

\* app.invoke(initial_state, config): the run before its first step
Invoke(initial_state, cfg) ==
    [state |-> initial_state, pc |-> "planner", trace |-> << >>,
     failure |-> "", reply |-> NoReply, config |-> cfg, llm_calls |-> 0,
     written |-> {}]

Ended(run) == run.pc \in {"END", "aborted"}

\* the answers the collaborators give in the runs of the entrypoints
EntryInputs(run) ==
    CASE run.pc = "planner" ->
           {LLMRaise, LLMReturn(<< >>)}
           \cup {LLMReturn(<<q>>) : q \in Queries}
      [] run.pc = "researcher" ->
           {[key |-> TRUE, wrapper |-> TRUE, outcomes |-> o] :
              o \in [1..Len(run.state.research_queries) ->
                       {SearchRaise, SearchReturn(<<Organic(U1), Organic(U2)>>)}]}
      [] run.pc = "selector" ->
           IF run.state.papers = << >> THEN {NoReply}
           ELSE {LLMReturn(Content("", JObject(Enriched(run.state.papers[1])), "")),
                 LLMReturn(Content("", JObject([Enriched(run.state.papers[1])
                                                  EXCEPT !.url = << >>]), ""))}
      [] run.pc = "generator" ->
           {LLMReturn(Content(FENCE_JSON, JObject(Draft(<<"Some paper">>)), FENCE)),
            LLMReturn(Content("", JObject(EmptyDict), "")),
            LLMReturn(Content("", Invalid, ""))}
      [] run.pc = "reviewer" -> {LLMReturn(FbApprove), LLMReturn(FbNeedsDepth)}
      [] run.pc = "linkedin" -> LinkedinOutcomes
      [] OTHER -> {NoReply}

\* the single run of Spec is not used by the entrypoint specifications
NoSingleRun ==
    /\ state = InitialState(CHOOSE t \in Topics : TRUE)
    /\ pc = "planner"
    /\ trace = << >>
    /\ route = ""
    /\ failure = ""
    /\ reply = NoReply
    /\ judgments = 0
    /\ config = EmptyDict
    /\ llm_calls = 0
    /\ written = {}

UnchangedSingleRun ==
    UNCHANGED <<state, pc, trace, route, failure, reply, judgments, config,
                llm_calls, written>>

---------------------------------------------------------------------------
(* main.py: main() streams one run, then invokes another and reports it *)

\* the initial state main() builds: it has no linkedin_post key
MainInitialState(topic) ==
    [topic |-> topic, iteration |-> 0, research_queries |-> << >>,
     papers |-> << >>, selected_paper |-> None, generated_question |-> None,
     feedback |-> NoneStr]

NoFeedbackLine == <<"<no feedback line>">>

\* what the loop over app.stream prints for the update of node
StreamLine(node, after) ==
    [node |-> node,
     feedback |-> IF node # "reviewer" THEN NoFeedbackLine
                  ELSE IF "feedback" \in after.written THEN after.state.feedback
                  ELSE NoneStr]

\* the report after invoke: print the question and save it, or say that
\* none was generated
main_report(final_state, file_ok) ==
    LET question == Get(final_state, "generated_question", None)
    IN  IF ~TruthyDict(question)
        THEN [at |-> "done", printed |-> None, saved |-> None, error |-> ""]
        ELSE IF ~(ARTIFACT_KEYS \subseteq DOMAIN question)
        THEN [at |-> "crashed", printed |-> None, saved |-> None,
              error |-> "KeyError"]
        ELSE IF ~file_ok
        THEN [at |-> "crashed", printed |-> question, saved |-> None,
              error |-> "OSError"]
        ELSE [at |-> "done", printed |-> question, saved |-> question,
              error |-> ""]

CliInit ==
    /\ entry \in {[program |-> "main", at |-> "stream",
                   initial_state |-> MainInitialState(t), streamed |-> << >>,
                   printed |-> None, saved |-> None, error |-> ""] :
                    t \in Topics}
    /\ runs = <<Invoke(entry.initial_state, EmptyDict)>>
    /\ NoSingleRun

\* one step of the run i of main(); an exception of a node leaves main()
CliStep(i, streaming) ==
    /\ ~Ended(runs[i])
    /\ \E input \in EntryInputs(runs[i]) :
          LET node == runs[i].pc
              after == Step(runs[i], input)
          IN  /\ runs' = [runs EXCEPT ![i] = after]
              /\ entry' =
                    IF after.pc = "aborted"
                    THEN [entry EXCEPT !.at = "crashed",
                                       !.error = after.failure]
                    ELSE IF streaming /\ node # "should_continue"
                    THEN [entry EXCEPT
                            !.streamed = Append(@, StreamLine(node, after))]
                    ELSE entry
    /\ UnchangedSingleRun

\* for output in app.stream(initial_state)
CliStream ==
    /\ entry.program = "main"
    /\ entry.at = "stream"
    /\ CliStep(1, TRUE)

\* the stream is exhausted: app.invoke(initial_state) starts the second run
CliInvokeStart ==
    /\ entry.program = "main"
    /\ entry.at = "stream"
    /\ runs[1].pc = "END"
    /\ runs' = Append(runs, Invoke(entry.initial_state, EmptyDict))
    /\ entry' = [entry EXCEPT !.at = "invoke"]
    /\ UnchangedSingleRun

CliInvoke ==
    /\ entry.program = "main"
    /\ entry.at = "invoke"
    /\ CliStep(2, FALSE)

CliReport ==
    /\ entry.program = "main"
    /\ entry.at = "invoke"
    /\ runs[2].pc = "END"
    /\ \E file_ok \in BOOLEAN :
          LET r == main_report(runs[2].state, file_ok)
          IN  entry' = [entry EXCEPT !.at = r.at, !.printed = r.printed,
                                     !.saved = r.saved, !.error = r.error]
    /\ UNCHANGED runs
    /\ UnchangedSingleRun

CliNext ==
    \/ CliStream
    \/ CliInvokeStart
    \/ CliInvoke
    \/ CliReport

CliSpec == CliInit /\ [][CliNext]_vars

---------------------------------------------------------------------------
(* api.py: the JSON-RPC endpoint validates the request, runs the workflow in
   the thread pool and answers with the URL of the uploaded PDF *)

INVALID_REQUEST == -32600
METHOD_NOT_FOUND == -32601
INVALID_PARAMS == -32602
INTERNAL_ERROR == -32603

NoResponse == [status |-> "none", code |-> 0, pdf_url |-> NoneStr]
JsonRpcErrorResponse(code) ==
    [status |-> "error", code |-> code, pdf_url |-> NoneStr]
JsonRpcResponse(pdf_url) ==
    [status |-> "success", code |-> 0, pdf_url |-> pdf_url]

\* what the validation decides: an error response, or the topic to run
Refuse(code) ==
    [run |-> FALSE, response |-> JsonRpcErrorResponse(code), topic |-> << >>]
Accept(topic) == [run |-> TRUE, response |-> NoResponse, topic |-> topic]

\* the part of _handle_agent_chat before the run, with the graph tested
\* before the message
handle_agent_chat_graph_first(request, graph_app) ==
    LET raw == Get(request.params, "message", << >>)
        metadata == Get(request.params, "metadata", EmptyDict)
    IN  IF raw = NoneStr THEN Refuse(INTERNAL_ERROR)
        ELSE IF ~graph_app THEN Refuse(INTERNAL_ERROR)
        ELSE IF Strip(raw) = << >> THEN Refuse(INVALID_PARAMS)
        ELSE IF metadata = None THEN Refuse(INTERNAL_ERROR)
        ELSE Accept(Strip(raw))

\* the part of _handle_agent_chat before the run. A null message has no
\* strip and a null metadata has no get: the AttributeError is caught by
\* the handler's except and answered as an internal error.
handle_agent_chat(request, graph_app) ==
    LET raw == Get(request.params, "message", << >>)
        metadata == Get(request.params, "metadata", EmptyDict)
    IN  IF raw = NoneStr THEN Refuse(INTERNAL_ERROR)
        ELSE IF Strip(raw) = << >> THEN Refuse(INVALID_PARAMS)
        ELSE IF metadata = None THEN Refuse(INTERNAL_ERROR)
        ELSE IF ~graph_app THEN Refuse(INTERNAL_ERROR)
        ELSE Accept(Strip(raw))

handle_jsonrpc(request, graph_app) ==
    IF request.jsonrpc # "2.0" THEN Refuse(INVALID_REQUEST)
    ELSE IF request.method = "agent.chat"
    THEN handle_agent_chat(request, graph_app)
    ELSE Refuse(METHOD_NOT_FOUND)

format_question_response(final_state) ==
    LET question == Get(final_state, "generated_question", None)
    IN  IF ~TruthyDict(question) THEN None
        ELSE [question |-> Get(question, "question", << >>),
              wrong_answer |-> Get(question, "wrong_answer", << >>),
              explanation |-> Get(question, "explanation", << >>),
              citation |-> Get(question, "citation", << >>),
              topic |-> Get(final_state, "topic", << >>)]

\* the part of _handle_agent_chat after the run: pdf_ok says that the PDF
\* modules were imported and generate_pdf returned, pdf_url is what
\* upload_file returned
agent_chat_response(run, pdf_ok, pdf_url) ==
    IF run.pc = "aborted" THEN JsonRpcErrorResponse(INTERNAL_ERROR)
    ELSE IF format_question_response(run.state) = None
    THEN JsonRpcErrorResponse(INTERNAL_ERROR)
    ELSE IF ~pdf_ok THEN JsonRpcErrorResponse(INTERNAL_ERROR)
    ELSE IF TruthyStr(pdf_url) THEN JsonRpcResponse(pdf_url)
    ELSE JsonRpcErrorResponse(INTERNAL_ERROR)

PDF_URL == <<"https://bucket.example/interview.pdf">>

ApiParams ==
    LET topic == CHOOSE t \in Topics : TRUE
    IN  {EmptyDict,
         [message |-> << >>],
         [message |-> <<" ", "\n">>],
         [message |-> NoneStr],
         [message |-> topic, metadata |-> None],
         [message |-> <<" ">> \o topic \o <<"\n">>],
         [message |-> topic, conversation_id |-> <<"c1">>,
          metadata |-> [user_id |-> <<"u1">>]]}

ApiRequests ==
    [jsonrpc : {"2.0", "1.0"}, method : {"agent.chat", "agent.stop"},
     params : ApiParams]

ApiInit ==
    /\ entry \in {[program |-> "api", at |-> "received", request |-> r,
                   graph_app |-> g, response |-> NoResponse] :
                    r \in ApiRequests, g \in BOOLEAN}
    /\ runs = << >>
    /\ NoSingleRun

\* handle_jsonrpc up to the call of graph_app.invoke
ApiReceive ==
    /\ entry.program = "api"
    /\ entry.at = "received"
    /\ LET h == handle_jsonrpc(entry.request, entry.graph_app)
       IN  IF h.run
           THEN /\ runs' = <<Invoke(InitialState(h.topic),
                                    [recursion_limit |-> API_RECURSION_LIMIT])>>
                /\ entry' = [entry EXCEPT !.at = "running"]
           ELSE /\ runs' = runs
                /\ entry' = [entry EXCEPT !.at = "responded",
                                          !.response = h.response]
    /\ UnchangedSingleRun

\* the run in the executor
ApiRun ==
    /\ entry.program = "api"
    /\ entry.at = "running"
    /\ ~Ended(runs[1])
    /\ \E input \in EntryInputs(runs[1]) :
          runs' = [runs EXCEPT ![1] = Step(runs[1], input)]
    /\ UNCHANGED entry
    /\ UnchangedSingleRun

ApiRespond ==
    /\ entry.program = "api"
    /\ entry.at = "running"
    /\ Ended(runs[1])
    /\ \E pdf_ok \in BOOLEAN, pdf_url \in {NoneStr, PDF_URL} :
          entry' = [entry EXCEPT
                      !.at = "responded",
                      !.response = agent_chat_response(runs[1], pdf_ok, pdf_url)]
    /\ UNCHANGED runs
    /\ UnchangedSingleRun

ApiNext ==
    \/ ApiReceive
    \/ ApiRun
    \/ ApiRespond

ApiSpec == ApiInit /\ [][ApiNext]_vars

---------------------------------------------------------------------------
(* batch_runner.py: run_batch() asks for the topics of the day, runs the
   workflow for each and compiles the questions into one PDF *)

MaxTopics == 2

DailyTopics == Topics \cup {<<"Speculative Decoding for Latency">>}

\* generate_daily_topics: the parsed list, or the exception of the call
TopicsOutcomes ==
    {LLMRaise} \cup {LLMReturn(ts) : ts \in SeqsUpTo(DailyTopics, MaxTopics)}

FAILED_POST == <<"Failed to generate post.">>

\* the body of the try for one topic, after invoke: the question is kept
\* with its topic when it is truthy
collect(results, run, topic) ==
    IF run.pc = "aborted" THEN results
    ELSE LET question == Get(run.state, "generated_question", None)
         IN  IF TruthyDict(question)
             THEN Append(results, SetItem(question, "topic", topic))
             ELSE results

\* the post file written for the topic, if one is written
post_file(run, file_ok) ==
    IF run.pc = "aborted" THEN << >>
    ELSE LET question == Get(run.state, "generated_question", None)
             linkedin_post == Get(run.state, "linkedin_post", NoneStr)
         IN  IF TruthyDict(question) /\ file_ok
             THEN <<IF TruthyStr(linkedin_post) THEN linkedin_post
                    ELSE FAILED_POST>>
             ELSE << >>

BatchInit ==
    /\ entry = [program |-> "batch", at |-> "topics", topics |-> << >>,
                next |-> 1, started |-> << >>, finals |-> << >>,
                results |-> << >>, posts |-> << >>, pdf_calls |-> << >>,
                error |-> ""]
    /\ runs = << >>
    /\ NoSingleRun

\* topics = generate_daily_topics()
BatchTopics ==
    /\ entry.program = "batch"
    /\ entry.at = "topics"
    /\ \E llm \in TopicsOutcomes :
          entry' = IF llm.raised
                   THEN [entry EXCEPT !.at = "crashed",
                                      !.error = "ProviderError"]
                   ELSE [entry EXCEPT !.at = "loop", !.topics = llm.content]
    /\ UNCHANGED runs
    /\ UnchangedSingleRun

\* for topic in topics: the initial state and the call of invoke
BatchStart ==
    /\ entry.program = "batch"
    /\ entry.at = "loop"
    /\ entry.next <= Len(entry.topics)
    /\ LET initial_state == InitialState(entry.topics[entry.next])
       IN  /\ runs' = <<Invoke(initial_state, EmptyDict)>>
           /\ entry' = [entry EXCEPT !.at = "running",
                                     !.started = Append(@, initial_state)]
    /\ UnchangedSingleRun

BatchRun ==
    /\ entry.program = "batch"
    /\ entry.at = "running"
    /\ ~Ended(runs[1])
    /\ \E input \in EntryInputs(runs[1]) :
          runs' = [runs EXCEPT ![1] = Step(runs[1], input)]
    /\ UNCHANGED entry
    /\ UnchangedSingleRun

\* invoke has returned or raised: the rest of the try, or the except
BatchCollect ==
    /\ entry.program = "batch"
    /\ entry.at = "running"
    /\ Ended(runs[1])
    /\ \E file_ok \in BOOLEAN :
          LET topic == entry.topics[entry.next]
          IN  entry' = [entry EXCEPT
                  !.at = "loop",
                  !.next = @ + 1,
                  !.results = collect(@, runs[1], topic),
                  !.posts = @ \o post_file(runs[1], file_ok),
                  !.finals = Append(@,
                      [topic |-> topic, ended |-> runs[1].pc,
                       question |-> IF runs[1].pc = "aborted" THEN None
                                    ELSE runs[1].state.generated_question])]
    /\ runs' = << >>
    /\ UnchangedSingleRun

\* after the loop: generate_pdf(results, filename) if there are results
BatchPdf ==
    /\ entry.program = "batch"
    /\ entry.at = "loop"
    /\ entry.next > Len(entry.topics)
    /\ IF entry.results # << >>
       THEN \E pdf_ok \in BOOLEAN :
               entry' = [entry EXCEPT
                           !.pdf_calls = Append(@, entry.results),
                           !.at = IF pdf_ok THEN "done" ELSE "crashed",
                           !.error = IF pdf_ok THEN @ ELSE "PdfError"]
       ELSE entry' = [entry EXCEPT !.at = "done"]
    /\ UNCHANGED runs
    /\ UnchangedSingleRun

BatchNext ==
    \/ BatchTopics
    \/ BatchStart
    \/ BatchRun
    \/ BatchCollect
    \/ BatchPdf

BatchSpec == BatchInit /\ [][BatchNext]_vars

---------------------------------------------------------------------------
(* Properties *)

Terminated == pc \in {"END", "aborted"}


\* C1: every run in which the reasoning service answers every call and the
\* Reviewer is reached terminates at END, after the Publisher, whatever the
\* feedback strings and the Generator's outcomes are.
C1_RunReachesEnd ==
    <>(\/ pc = "END"
       \/ /\ pc = "aborted"
          /\ (failure = "ProviderError" \/ ~InList("reviewer", trace)))

\* C2: iteration stays within 0..3 and never decreases, and the Reviewer
\* performs at most 3 judgments.
C2_IterationBounded ==
    /\ [](state.iteration \in 0..3 /\ judgments <= 3)
    /\ [][state'.iteration >= state.iteration]_vars

C2_Witness == pc = "END" /\ state.iteration = 3 /\ judgments = 3

\* C3: a Reviewer execution on a non-null Artifact adds exactly 1 to
\* iteration; on a null Artifact it leaves iteration alone and sets the fixed
\* feedback; no other step changes iteration; iteration counts the judgments.
C3_ReviewerCounts ==
    /\ [][(pc = "reviewer" /\ state.generated_question # None)
            => state'.iteration = state.iteration + 1]_vars
    /\ [][(pc = "reviewer" /\ state.generated_question = None)
            => (/\ state'.iteration = state.iteration
                /\ state'.feedback = FAILED_MESSAGE)]_vars
    /\ [][pc # "reviewer" => state'.iteration = state.iteration]_vars
    /\ [](state.iteration = judgments)

\* C4: the policy returns linkedin whenever iteration >= 3, whatever the
\* feedback is and whether or not there is an Artifact.
C4_CapWins ==
    (route # "" /\ state.iteration >= 3) => route = "linkedin"

C4_Witness ==
    /\ route = "linkedin"
    /\ state.iteration = 3
    /\ state.feedback = FbNeedsDepth
    /\ TruthyDict(state.generated_question)

\* The approval rule as the claim words it, on character positions: a token
\* starts where a non-blank character follows a blank one or opens the text.
ClaimTokenStarts(u) ==
    {i \in 1..Len(u) : u[i] \notin Whitespace /\ (i = 1 \/ u[i - 1] \in Whitespace)}

ClaimTokenAt(u, i) ==
    LET last == CHOOSE j \in i..Len(u) :
                    /\ \A k \in i..j : u[k] \notin Whitespace
                    /\ (j = Len(u) \/ u[j + 1] \in Whitespace)
    IN  SubSeq(u, i, last)

ClaimApproved(feedback) ==
    LET u == Upper(feedback)
        starts == ClaimTokenStarts(u)
    IN  \E i \in starts :
            LET before == Cardinality({j \in starts : j < i})
            IN  \/ /\ before = 0
                   /\ i + 6 <= Len(u)
                   /\ SubSeq(u, i, i + 6) = <<"A", "P", "P", "R", "O", "V", "E">>
                \/ /\ before < 2
                   /\ ClaimTokenAt(u, i) = <<"A", "P", "P", "R", "O", "V", "E">>

\* C5: below the cap, a non-empty feedback is approved (and the policy
\* publishes) exactly when, uppercased and trimmed, it starts with APPROVE or
\* has APPROVE among its first two tokens; the five examples of the claim
\* fall on the stated sides.
C5_ApprovalClassification ==
    (route # "" /\ state.iteration < 3 /\ TruthyStr(state.feedback)) =>
        /\ ClaimApproved(state.feedback) => route = "linkedin"
        /\ (~ClaimApproved(state.feedback)
              /\ TruthyDict(state.generated_question)) => route = "generator"
        /\ state.feedback \in {FbApprove, FbApproveNice, FbOkApprove}
              => route = "linkedin"
        /\ (state.feedback \in {FbNeedsDepth, FbFifthToken}
              /\ TruthyDict(state.generated_question)) => route = "generator"

C5_Witness ==
    /\ route = "linkedin"
    /\ state.iteration < 3
    /\ state.feedback = FbOkApprove
    /\ TruthyDict(state.generated_question)

\* C6: the policy returns generator if and only if iteration < 3, the
\* feedback is not approved (null and empty included) and there is an
\* Artifact (a non-null, non-empty question).
C6_GenerateIff ==
    route # "" =>
        (route = "generator" <=>
            /\ state.iteration < 3
            /\ ~(TruthyStr(state.feedback) /\ ClaimApproved(state.feedback))
            /\ state.generated_question # None
            /\ state.generated_question # EmptyDict)

C6_Witness ==
    /\ route = "linkedin"
    /\ state.iteration < 3
    /\ state.feedback = FbNeedsDepth
    /\ state.generated_question = None

\* C7: the nodes run in the order planner, researcher, selector, then
\* generator and reviewer in alternation, and a run that has stopped ran
\* planner, researcher, selector once, at least one generator-reviewer pair,
\* and the publisher once, last.
GraphEdges ==
    {<<"planner", "researcher">>, <<"researcher", "selector">>,
     <<"selector", "generator">>, <<"generator", "reviewer">>,
     <<"reviewer", "generator">>, <<"reviewer", "linkedin">>}

C7_NodeOrder ==
    /\ trace # << >> => trace[1] = "planner"
    /\ \A i \in 1..(Len(trace) - 1) : <<trace[i], trace[i + 1]>> \in GraphEdges
    /\ Terminated =>
          /\ Len(trace) >= 6
          /\ trace[Len(trace)] = "linkedin"
          /\ \A n \in {"planner", "researcher", "selector", "linkedin"} :
                Cardinality({i \in 1..Len(trace) : trace[i] = n}) = 1

\* C8: a reasoning-service call that raises never aborts the run.
C8_ServiceFailureTolerated ==
    ~(pc = "aborted" /\ failure = "ProviderError")

\* the reply parses as an object with the five keys the Selector asks for
RequiredStructure(content) ==
    LET loaded == json_loads(StripFence(content))
    IN  /\ loaded.ok
        /\ loaded.type = "dict"
        /\ {"title", "authors", "summary", "url", "reason"}
              \subseteq DOMAIN loaded.value

\* C9: with a non-empty CandidateList, whatever the service replies to the
\* Selector, the run goes on with a non-null SelectedCandidate, which is
\* papers[0] when the reply is not the required structure.
C9_SelectorFallback ==
    [][(pc = "selector" /\ state.papers # << >> /\ ~reply'.raised) =>
          /\ pc' = "generator"
          /\ state'.selected_paper # None
          /\ (~RequiredStructure(reply'.content)
                => state'.selected_paper = state.papers[1])]_vars

\* C10: the Artifact is null or has all four keys.
C10_ArtifactAllOrNothing ==
    \/ state.generated_question = None
    \/ ARTIFACT_KEYS \subseteq DOMAIN state.generated_question

\* the citation the claim prescribes: title - authors or Unknown (url)
ClaimCitation(paper) ==
    LET authors == Get(paper, "authors", NoneStr)
    IN  Format(paper.title) \o <<" - ">>
        \o (IF TruthyStr(authors) THEN authors ELSE <<"Unknown">>)
        \o <<" (">> \o Format(paper.url) \o <<")">>

\* C11: after a Generator execution that leaves a non-null Artifact, the
\* Artifact has a citation that contains the SelectedCandidate's URL; the
\* citation is the parsed one when that one contains the URL, and otherwise
\* title - authors or Unknown (url).
C11_CitationCarriesURL ==
    [][(pc = "generator" /\ pc' = "reviewer"
           /\ state'.generated_question # None) =>
          LET paper == state.selected_paper
              artifact == state'.generated_question
              parsed == Get(json_loads(StripFence(reply'.content)).value,
                            "citation", NoneStr)
          IN  /\ "citation" \in DOMAIN artifact
              /\ Contains(paper.url, artifact.citation)
              /\ artifact.citation =
                    IF TruthyStr(parsed) /\ Contains(paper.url, parsed)
                    THEN parsed ELSE ClaimCitation(paper)]_vars

\* C12: every entrypoint runs the engine under a step ceiling of 100 node
\* invocations, and a run is aborted only for exceeding that ceiling.
C12_StepCeiling ==
    /\ RecursionLimit(config) = 100
    /\ pc = "aborted" => failure = "GraphRecursionError"

\* the links among the results the Researcher reads for one query
LinksOf(outcome) ==
    IF outcome.raised THEN {}
    ELSE LET top == Take(outcome.organic_results, TOP_RESULTS)
         IN  {Get(top[i], "link", NoneStr) : i \in 1..Len(top)} \ {NoneStr}

\* C13: no two entries of the CandidateList have the same URL.
C13_NoDuplicateURL ==
    \A i, j \in 1..Len(state.papers) :
        state.papers[i].url = state.papers[j].url => i = j

\* two queries returned the same URL and the Researcher has written the list
C13_Witness ==
    /\ pc = "selector"
    /\ "searches" \in DOMAIN reply
    /\ \E i, j \in 1..Len(reply.searches) :
          /\ i < j
          /\ \E url \in LinksOf(reply.searches[i]) \cap LinksOf(reply.searches[j]) :
                Cardinality({k \in 1..Len(state.papers) :
                                state.papers[k].url = url}) = 1

\* the fields each node owns
Owns(node) ==
    CASE node = "planner" -> {"research_queries"}
      [] node = "researcher" -> {"papers"}
      [] node = "selector" -> {"selected_paper"}
      [] node = "generator" -> {"generated_question"}
      [] node = "reviewer" -> {"feedback", "iteration"}
      [] node = "linkedin" -> {"linkedin_post"}
      [] OTHER -> {}

\* C14: the patch a node returns has only fields the node owns, the merge
\* leaves every field absent from the patch as it was, topic never changes,
\* and research_queries, papers and selected_paper keep their value from
\* the first Generator execution on.
C14_OwnedFieldsOnly ==
    /\ [][/\ written' \subseteq Owns(pc)
          /\ \A k \in DOMAIN state \ written' :
                k \in DOMAIN state' /\ state'[k] = state[k]]_vars
    /\ [][state'.topic = state.topic]_vars
    /\ [][(pc \in {"generator", "reviewer", "should_continue", "linkedin"}) =>
            (/\ state'.research_queries = state.research_queries
             /\ state'.papers = state.papers
             /\ state'.selected_paper = state.selected_paper)]_vars

\* the Reviewer has merged its patch at the end of a second cycle
C14_Witness ==
    /\ pc = "should_continue"
    /\ written = {"feedback", "iteration"}
    /\ state.iteration = 2
    /\ state.papers # << >>
    /\ TruthyDict(state.generated_question)

\* the nodes of a run whose CandidateList is empty, in order
EmptyListTrace ==
    <<"planner", "researcher", "selector", "generator", "reviewer", "linkedin">>

\* C15: once the Researcher has left an empty CandidateList, the run goes
\* on through Selector, Generator and Reviewer once each without stopping,
\* the policy returns linkedin, and the run ends with SelectedCandidate,
\* Artifact and PublishedPost null, iteration 0 and the fixed feedback.
C15_EmptyListRun ==
    (InList("researcher", trace) /\ state.papers = << >>) =>
        /\ pc # "aborted"
        /\ pc # "END" => ENABLED Next
        /\ Len(trace) <= Len(EmptyListTrace)
        /\ trace = SubSeq(EmptyListTrace, 1, Len(trace))
        /\ route \in {"", "linkedin"}
        /\ state.iteration = 0
        /\ pc = "END" =>
              /\ trace = EmptyListTrace
              /\ route = "linkedin"
              /\ state.selected_paper = None
              /\ state.generated_question = None
              /\ state.linkedin_post = NoneStr
              /\ state.feedback = FAILED_MESSAGE

C15_Witness ==
    /\ pc = "END"
    /\ state.research_queries # << >>
    /\ state.papers = << >>
    /\ trace = EmptyListTrace

\* how many times node has run
Executions(node) == Cardinality({i \in 1..Len(trace) : trace[i] = node})

\* the run did not stop inside node
Completed(node) == ~(pc = "aborted" /\ trace[Len(trace)] = node)

\* C16: a stopped run in which every Generator execution yielded a non-null
\* Artifact and no feedback was approving ran the Generator and the Reviewer
\* 3 times each, has iteration 3, was routed to linkedin and ran the
\* Publisher last. (A loop-back needs an Artifact and a feedback that is not
\* approving, so the Artifact and the feedback of the stopped run stand for
\* all the earlier ones.)
C16_ForcedCap ==
    (/\ Terminated
     /\ InList("generator", trace)
     /\ Completed("generator")
     /\ state.generated_question # None
     /\ ~(TruthyStr(state.feedback) /\ ClaimApproved(state.feedback))) =>
        /\ Executions("generator") = 3
        /\ Executions("reviewer") = 3
        /\ state.iteration = 3
        /\ route = "linkedin"
        /\ trace[Len(trace)] = "linkedin"

\* C17: a stopped run that found candidates, got a non-null Artifact and
\* whose first feedback was APPROVE has reached END with one Generator and
\* one Reviewer execution, iteration 1, a citation containing the
\* SelectedCandidate's URL and the Publisher's reply as PublishedPost.
C17_HappyPath ==
    (/\ Terminated
     /\ state.papers # << >>
     /\ state.generated_question # None
     /\ state.feedback = FbApprove
     /\ state.iteration = 1) =>
        /\ pc = "END"
        /\ Executions("generator") = 1
        /\ Executions("reviewer") = 1
        /\ "citation" \in DOMAIN state.generated_question
        /\ Contains(state.selected_paper.url, state.generated_question.citation)
        /\ state.linkedin_post = reply.content

\* C19: the Selector on an empty CandidateList, the Generator on a null
\* SelectedCandidate, the Reviewer on a null Artifact and the Publisher on a
\* null Artifact return their fixed output without calling the reasoning
\* service, and a stopped run with an empty CandidateList has called the
\* service exactly once.
C19_ShortCircuitsMakeNoCall ==
    /\ [][(pc = "selector" /\ state.papers = << >>) =>
            (llm_calls' = llm_calls /\ pc' = "generator"
             /\ state'.selected_paper = None)]_vars
    /\ [][(pc = "generator" /\ state.selected_paper = None) =>
            (llm_calls' = llm_calls /\ pc' = "reviewer"
             /\ state'.generated_question = None)]_vars
    /\ [][(pc = "reviewer" /\ state.generated_question = None) =>
            (llm_calls' = llm_calls /\ pc' = "should_continue"
             /\ state'.feedback = FAILED_MESSAGE)]_vars
    /\ [][(pc = "linkedin" /\ state.generated_question = None) =>
            (llm_calls' = llm_calls /\ pc' = "END"
             /\ state'.linkedin_post = NoneStr)]_vars
    /\ []((Terminated /\ state.papers = << >>) => llm_calls = 1)

C19_Witness ==
    /\ pc = "END"
    /\ llm_calls = 1
    /\ Executions("selector") = 1
    /\ Executions("linkedin") = 1
    /\ state.generated_question = None

\* C20: the Researcher always returns normally, and its CandidateList holds
\* the URLs of every query whose search did not raise, those before and
\* those after a query whose search raised.
C20_QueryFailureContained ==
    [][pc = "researcher" =>
          /\ pc' = "selector"
          /\ "searches" \in DOMAIN reply' =>
                {state'.papers[k].url : k \in 1..Len(state'.papers)}
                  = {url \in UNION {LinksOf(reply'.searches[i]) :
                                      i \in 1..Len(reply'.searches)} :
                        TruthyStr(url)}]_vars

\* the first query's search raised and a later query gave candidates
C20_Witness ==
    /\ pc = "selector"
    /\ "searches" \in DOMAIN reply
    /\ Len(reply.searches) >= 2
    /\ reply.searches[1].raised
    /\ state.papers # << >>

\* the URLs of a CandidateList
URLs(papers) == {papers[k].url : k \in 1..Len(papers)}

ChoosesMode == pc = "generator" /\ TruthyDict(state.selected_paper)

\* C21: the Generator runs in refinement mode exactly when the state holds
\* an Artifact and a non-null feedback, and then invokes the service with
\* the Artifact's question, wrong_answer and explanation and the feedback.
C21_ModeChoice ==
    ChoosesMode =>
        /\ refinement_mode(state) <=>
              (state.generated_question # None /\ state.feedback # NoneStr)
        /\ refinement_mode(state) =>
              /\ DOMAIN input_vars(state) =
                    {"question", "wrong_answer", "explanation", "feedback"}
              /\ \A k \in QUESTION_TEXT_KEYS :
                    input_vars(state)[k] = state.generated_question[k]
              /\ input_vars(state).feedback = state.feedback

\* the Planner has returned (its service call did not raise)
PlannerReturned == pc # "planner" /\ ~(pc = "aborted" /\ Len(trace) = 1)

\* C22: once the Planner has returned an empty QuerySet the run never
\* stops before END: the Researcher writes an empty CandidateList, the
\* Selector and the Generator write null, and the run ends after the
\* Publisher with Artifact and PublishedPost null.
C22_EmptyQuerySet ==
    (PlannerReturned /\ state.research_queries = << >>) =>
        /\ pc # "aborted"
        /\ pc # "END" => ENABLED Next
        /\ state.papers = << >>
        /\ state.selected_paper = None
        /\ state.generated_question = None
        /\ state.linkedin_post = NoneStr
        /\ pc = "END" => trace = EmptyListTrace

C22_Witness ==
    /\ pc = "END"
    /\ PlannerReturned
    /\ state.research_queries = << >>
    /\ trace[Len(trace)] = "linkedin"

\* C23: a non-null SelectedCandidate has the URL of some entry of the
\* CandidateList.
C23_SelectedIsCandidate ==
    state.selected_paper # None =>
        /\ "url" \in DOMAIN state.selected_paper
        /\ state.selected_paper.url \in URLs(state.papers)

\* C24: the Publisher writes null for a null Artifact and the service's
\* response for any other; a run ended with a PublishedPost has an Artifact;
\* PublishedPost is null until the Publisher has run.
C24_PublishedPost ==
    /\ [][(pc = "linkedin" /\ state.generated_question = None) =>
            state'.linkedin_post = NoneStr]_vars
    /\ [][(pc = "linkedin" /\ state.generated_question # None) =>
            (/\ pc' = "END"
             /\ "content" \in DOMAIN reply'
             /\ state'.linkedin_post = reply'.content)]_vars
    /\ []((pc = "END" /\ state.linkedin_post # NoneStr)
            => state.generated_question # None)
    /\ [](~InList("linkedin", trace) => state.linkedin_post = NoneStr)

\* the node at pc has received a reply text that opens with a fence
FencedReply(node) ==
    /\ pc = node
    /\ "content" \in DOMAIN reply'
    /\ reply'.content.open \in {FENCE_JSON, FENCE}

\* the same body sent without any fence
Unfenced(content) == LLMReturn(Content("", content.body, ""))

\* C25: for the Selector and the Generator a fenced JSON object gives the
\* result the bare object gives, and a reply with an opening fence and no
\* closing fence gives the parse-failure result (the first candidate, a
\* null Artifact) and no error.
C25_FenceStripping ==
    /\ [][(FencedReply("selector") /\ reply'.content.close = FENCE
             /\ reply'.content.body.json = "object") =>
            (/\ pc' = "generator"
             /\ state'.selected_paper =
                   selector_node(state, Unfenced(reply'.content)).patch.selected_paper)]_vars
    /\ [][(FencedReply("generator") /\ reply'.content.close = FENCE
             /\ reply'.content.body.json = "object") =>
            (/\ pc' = "reviewer"
             /\ state'.generated_question =
                   generator_node(state, Unfenced(reply'.content)).patch.generated_question)]_vars
    /\ [][(FencedReply("selector") /\ reply'.content.close = "") =>
            (pc' = "generator" /\ state'.selected_paper = state.papers[1])]_vars
    /\ [][(FencedReply("generator") /\ reply'.content.close = "") =>
            (pc' = "reviewer" /\ state'.generated_question = None)]_vars

\* the links of the first 3 results of one search, in result order
TopLinks(outcome) ==
    IF outcome.raised THEN << >>
    ELSE LET linked == SelectSeq(Take(outcome.organic_results, 3),
                          LAMBDA r : TruthyStr(Get(r, "link", NoneStr)))
         IN  [i \in 1..Len(linked) |-> linked[i].link]

\* seq without the later occurrences of each value
FirstOccurrences(seq) ==
    LET first == SelectSeq([i \in 1..Len(seq) |-> i],
                     LAMBDA i : \A j \in 1..(i - 1) : seq[j] # seq[i])
    IN  [n \in 1..Len(first) |-> seq[first[n]]]

\* C26: the CandidateList has at most 3 entries per query, and its URLs are
\* the links of the first 3 results of each query, in query order and then
\* result order, each at its first occurrence, results without a link
\* left out.
C26_TopThreeInOrder ==
    [][pc = "researcher" =>
          /\ Len(state'.papers) <= 3 * Len(state.research_queries)
          /\ "searches" \in DOMAIN reply' =>
                [k \in 1..Len(state'.papers) |-> state'.papers[k].url]
                  = FirstOccurrences(Flatten(
                        [i \in 1..Len(reply'.searches) |->
                            TopLinks(reply'.searches[i])]))]_vars

\* a search returned four results, one of the first three without a link:
\* the third is in the list, the fourth is not
C26_Witness ==
    /\ pc = "selector"
    /\ "searches" \in DOMAIN reply
    /\ \E i \in 1..Len(reply.searches) :
          /\ ~reply.searches[i].raised
          /\ Len(reply.searches[i].organic_results) = 4
    /\ U3 \in URLs(state.papers)
    /\ U4 \notin URLs(state.papers)

\* C27: a refinement whose reply does not parse writes a null Artifact;
\* once a second or third Generator execution has left a null Artifact the
\* run goes on without stopping to END, where PublishedPost is null, the
\* feedback is the fixed message and iteration is the number of earlier
\* judgments; and every run that ends with a null Artifact ends with the
\* fixed message as feedback.
C27_FailedRefinement ==
    /\ [][(/\ ChoosesMode
           /\ refinement_mode(state)
           /\ "content" \in DOMAIN reply'
           /\ ~json_loads(StripFence(reply'.content)).ok) =>
            (pc' = "reviewer" /\ state'.generated_question = None)]_vars
    /\ []((/\ Executions("generator") >= 2
           /\ Completed("generator")
           /\ state.generated_question = None) =>
            /\ pc \in {"reviewer", "should_continue", "linkedin", "END"}
            /\ state.iteration \in {1, 2}
            /\ Executions("generator") = state.iteration + 1
            /\ judgments = state.iteration
            /\ pc = "END" =>
                  /\ route = "linkedin"
                  /\ Executions("reviewer") = Executions("generator")
                  /\ state.linkedin_post = NoneStr
                  /\ state.feedback = FAILED_MESSAGE)
    /\ []((pc = "END" /\ state.generated_question = None)
            => state.feedback = FAILED_MESSAGE)

\* the third Generator execution, a refinement, did not parse and the run
\* has ended
C27_Witness ==
    /\ pc = "END"
    /\ Executions("generator") = 3
    /\ state.generated_question = None
    /\ state.iteration = 2
    /\ state.feedback = FAILED_MESSAGE

\* C28: a run makes at most 10 node invocations: Planner, Researcher,
\* Selector and Publisher at most once each, Generator and Reviewer at most
\* 3 times each; the engine never refuses a step for the ceiling.
C28_AtMostTenInvocations ==
    /\ Len(trace) <= 10
    /\ \A node \in {"planner", "researcher", "selector", "linkedin"} :
          Executions(node) <= 1
    /\ Executions("generator") <= 3
    /\ Executions("reviewer") <= 3
    /\ Len(trace) <= RecursionLimit(config)
    /\ failure # "GraphRecursionError"

\* a run of 10 invocations under the ceiling the API configures
C28_Witness ==
    /\ pc = "END"
    /\ Len(trace) = 10
    /\ config = [recursion_limit |-> API_RECURSION_LIMIT]

\* C29: when the Publisher starts, iteration is 3, or the feedback is
\* classified as approved, or the Artifact is null.
C29_PublishOnlyWhenDue ==
    pc = "linkedin" =>
        \/ state.iteration = 3
        \/ TruthyStr(state.feedback) /\ ClaimApproved(state.feedback)
        \/ state.generated_question = None

\* C30: the first Generator execution of a run is in creation mode, and
\* every later one is in refinement mode, invoked with the texts of the
\* Artifact and the feedback then in the state.
C30_RefinementAfterFirst ==
    ChoosesMode =>
        /\ Executions("generator") = 0 => ~refinement_mode(state)
        /\ Executions("generator") >= 1 =>
              /\ refinement_mode(state)
              /\ input_vars(state) =
                    [question |-> state.generated_question.question,
                     wrong_answer |-> state.generated_question.wrong_answer,
                     explanation |-> state.generated_question.explanation,
                     feedback |-> state.feedback]

\* C31: when main() has ended, the workflow has been run twice from the
\* same initial state, once streamed and once invoked, every node has run in
\* each of the two runs, and the question printed and saved is the one of
\* the second run.
WORKFLOW_NODES ==
    {"planner", "researcher", "selector", "generator", "reviewer", "linkedin"}

RanIn(run, node) == \E k \in 1..Len(run.trace) : run.trace[k] = node

C31_TwoWholeRuns ==
    (entry.program = "main" /\ entry.at \in {"done", "crashed"}) =>
        /\ Len(runs) = 2
        /\ \A i \in 1..2 :
              /\ runs[i].pc = "END"
              /\ runs[i].state.topic = entry.initial_state.topic
              /\ \A node \in WORKFLOW_NODES : RanIn(runs[i], node)
        /\ Len(entry.streamed) = Len(runs[1].trace)
        /\ entry.printed # None =>
              entry.printed = runs[2].state.generated_question
        /\ entry.saved # None =>
              entry.saved = runs[2].state.generated_question

\* the message is missing or consists of whitespace only
ClaimBlank(params) ==
    \/ "message" \notin DOMAIN params
    \/ /\ params.message # NoneStr
       /\ \A k \in 1..Len(params.message) : params.message[k] \in Whitespace

\* C32: no run is started for a request with a wrong jsonrpc, an unknown
\* method, a missing or whitespace-only message or while the graph is not
\* initialised; these are answered -32600, -32601, -32602 and -32603, the
\* first that applies in this order; and a success result is returned only
\* when the run's final Artifact is non-null and the upload returned a URL.
C32_RequestValidation ==
    entry.program = "api" =>
        LET request == entry.request
            version == request.jsonrpc # "2.0"
            method == request.method # "agent.chat"
            message == ClaimBlank(request.params)
            graph == ~entry.graph_app
            code == entry.response.code
        IN  /\ (version \/ method \/ message \/ graph) => runs = << >>
            /\ entry.at = "responded" =>
                  /\ version => code = -32600
                  /\ (~version /\ method) => code = -32601
                  /\ (~version /\ ~method /\ message) => code = -32602
                  /\ (~version /\ ~method /\ ~message /\ graph) =>
                        code = -32603
            /\ entry.response.status = "success" =>
                  /\ Len(runs) = 1
                  /\ runs[1].pc = "END"
                  /\ runs[1].state.generated_question # None
                  /\ entry.response.pdf_url = PDF_URL

\* a whitespace-only message that arrived while the graph was not
\* initialised has been answered
C32_Witness ==
    /\ entry.program = "api"
    /\ entry.at = "responded"
    /\ entry.request.jsonrpc = "2.0"
    /\ entry.request.method = "agent.chat"
    /\ entry.request.params = [message |-> <<" ", "\n">>]
    /\ ~entry.graph_app
    /\ entry.response.code = -32602
    /\ runs = << >>

\* the topics whose run ended with a non-null Artifact, in topic order,
\* each Artifact with its topic
WithArtifact(finals) ==
    LET kept == SelectSeq(finals, LAMBDA f : f.ended = "END" /\ f.question # None)
    IN  [k \in 1..Len(kept) |-> SetItem(kept[k].question, "topic", kept[k].topic)]

\* run_batch() is past its loop
LoopDone ==
    \/ entry.at = "done"
    \/ entry.at = "crashed" /\ entry.error = "PdfError"

\* C33: the topics are processed one after another, each from a fresh
\* initial state with iteration 0; a topic whose processing raised is
\* followed by the remaining topics; the batch PDF is generated from exactly
\* the topics whose final Artifact is non-null, in topic order, and no PDF is
\* generated when there is none.
C33_BatchPdf ==
    entry.program = "batch" =>
        /\ Len(runs) <= 1
        /\ Len(entry.started) = Len(entry.finals) + Len(runs)
        /\ \A k \in 1..Len(entry.started) :
              entry.started[k] = InitialState(entry.topics[k])
        /\ LoopDone =>
              /\ Len(entry.finals) = Len(entry.topics)
              /\ entry.pdf_calls =
                    IF WithArtifact(entry.finals) = << >> THEN << >>
                    ELSE <<WithArtifact(entry.finals)>>

====
